---------------------------- MODULE Spec2Model ----------------------------
(***************************************************************************)
(* Model of generate_service_map.py: a JSON Lines file of flow records is  *)
(* read line by line, each accepted record is merged into a dictionary     *)
(* keyed by (source, destination, protocol), the dictionary is converted   *)
(* to an edge list, main sorts the list and emits it.                      *)
(*                                                                         *)
(* Strings are sequences of one-character strings so that split('-'),      *)
(* f-string formatting and the lexicographic order of the sort are         *)
(* computed, not assumed.  A JSON value is a record [t, v, n]: t is the    *)
(* Python type after json.loads, v the text str() gives for it, n its      *)
(* numeric value (numbers) or its length (lists).                          *)
(***************************************************************************)
EXTENDS Integers, Sequences, FiniteSets, TLC

(* Longest input file explored. *)
MaxLen == 3

(* Longest pod name explored for extract_service_name. *)
MaxPodLen == 5

-----------------------------------------------------------------------------
(* Characters, in code point order (the order Python compares str by). *)
Alphabet ==
    << " ", "'", "(", ")", "-", ".", "0", "1", "2", "5", "6", "7", "9",
       "A", "C", "D", "E", "F", "H", "I", "K", "L", "N", "O", "P", "R", "T",
       "U", "W", "[", "]", "a", "b", "e", "g", "l", "n", "o", "q", "r", "t",
       "x" >>

Code(c) == CHOOSE i \in 1..Len(Alphabet) : Alphabet[i] = c

RECURSIVE StrLess(_, _)
StrLess(s, u) ==
    IF s = << >> THEN u # << >>
    ELSE IF u = << >> THEN FALSE
    ELSE IF Head(s) = Head(u) THEN StrLess(Tail(s), Tail(u))
    ELSE Code(Head(s)) < Code(Head(u))

-----------------------------------------------------------------------------
(* JSON values as Python objects. *)
Str(s)     == [t |-> "str",   v |-> s, n |-> 0]
IntVal(i, txt)   == [t |-> "int",   v |-> txt, n |-> i]
FloatVal(i, txt) == [t |-> "float", v |-> txt, n |-> i]
NoneVal    == [t |-> "null",  v |-> <<"N", "o", "n", "e">>, n |-> 0]
ListVal(len, txt) == [t |-> "list", v |-> txt, n |-> len]
(* A JSON object with one key; v is the key. *)
DictVal(key) == [t |-> "dict", v |-> key, n |-> 1]
(* A key that the JSON object does not have. *)
Absent     == [t |-> "absent", v |-> << >>, n |-> 0]

IsNumber(x) == x.t \in {"int", "float"}

(* bool(x) *)
Truthy(x) ==
    CASE x.t = "str"  -> x.v # << >>
      [] IsNumber(x)  -> x.n # 0
      [] x.t \in {"list", "dict"} -> x.n # 0
      [] OTHER        -> FALSE

(* x == y *)
PyEq(x, y) ==
    IF IsNumber(x) /\ IsNumber(y) THEN x.n = y.n
    ELSE x.t = y.t /\ x.v = y.v

(* hash(x) succeeds *)
Hashable(x) == x.t \notin {"list", "dict"}

(* dict.get(key, default) on a parsed object *)
Get(flow, key, default) == IF flow[key].t = "absent" THEN default ELSE flow[key]

FORWARDED == <<"F", "O", "R", "W", "A", "R", "D", "E", "D">>
DROPPED   == <<"D", "R", "O", "P", "P", "E", "D">>
UNKNOWN   == <<"U", "N", "K", "N", "O", "W", "N">>
EXTERNAL  == <<"e", "x", "t", "e", "r", "n", "a", "l">>

-----------------------------------------------------------------------------
FirstPartWholeName(s) == s

(* extract_service_name *)
RECURSIVE FirstPart(_)
FirstPart(s) ==
    IF s = << >> \/ Head(s) = "-" THEN << >>
    ELSE <<Head(s)>> \o FirstPart(Tail(s))

(* Result of a call: raised is TRUE when the call raises. *)
Ret(x)  == [raised |-> FALSE, val |-> x]
Raise   == [raised |-> TRUE,  val |-> NoneVal]

extract_service_name(pod_name) ==
    IF ~Truthy(pod_name) THEN Ret(NoneVal)
    ELSE IF pod_name.t # "str" THEN Raise
    ELSE Ret(Str(FirstPart(pod_name.v)))

(* f"{name} ({ns})" *)
Label(name, ns) == name.v \o <<" ", "(">> \o ns.v \o <<")">>

-----------------------------------------------------------------------------
(* The edges dictionary: entries in insertion order. *)
FindKeyMisses(edges, s, d, p) == 0

FindKey(edges, s, d, p) ==
    IF \E i \in 1..Len(edges) :
          edges[i].source = s /\ edges[i].destination = d
          /\ PyEq(edges[i].protocol, p)
    THEN CHOOSE i \in 1..Len(edges) :
          edges[i].source = s /\ edges[i].destination = d
          /\ PyEq(edges[i].protocol, p)
    ELSE 0

NewEntry(s, d, p) ==
    [source |-> s, destination |-> d, protocol |-> p,
     forwarded |-> FALSE, dropped |-> FALSE]

SetFlagToggles(edges, s, d, p, flag) ==
    LET i == FindKey(edges, s, d, p)
        withKey == IF i = 0 THEN Append(edges, NewEntry(s, d, p)) ELSE edges
        j == IF i = 0 THEN Len(withKey) ELSE i
    IN  [withKey EXCEPT ![j] = [@ EXCEPT ![flag] = ~@]]

SetFlagCreatesOnly(edges, s, d, p, flag) ==
    LET i == FindKey(edges, s, d, p)
    IN  IF i = 0 THEN Append(edges, NewEntry(s, d, p))
        ELSE [edges EXCEPT ![i] = [@ EXCEPT ![flag] = TRUE]]

SetFlagResetsOther(edges, s, d, p, flag) ==
    LET i == FindKey(edges, s, d, p)
        withKey == IF i = 0 THEN Append(edges, NewEntry(s, d, p)) ELSE edges
        j == IF i = 0 THEN Len(withKey) ELSE i
    IN  [withKey EXCEPT ![j] = [NewEntry(s, d, p) EXCEPT ![flag] = TRUE]]

(* edges[edge_key][flag] = True, edges being a defaultdict *)
SetFlag(edges, s, d, p, flag) ==
    LET i == FindKey(edges, s, d, p)
        withKey == IF i = 0 THEN Append(edges, NewEntry(s, d, p)) ELSE edges
        j == IF i = 0 THEN Len(withKey) ELSE i
    IN  [withKey EXCEPT ![j] = [@ EXCEPT ![flag] = TRUE]]

ObserveCreatesKey(edges, s, d, p, verdict) ==
    IF PyEq(verdict, Str(FORWARDED)) THEN SetFlag(edges, s, d, p, "forwarded")
    ELSE IF PyEq(verdict, Str(DROPPED)) THEN SetFlag(edges, s, d, p, "dropped")
    ELSE IF FindKey(edges, s, d, p) = 0
         THEN Append(edges, NewEntry(s, d, p))
    ELSE edges

ObserveIgnoresDropped(edges, s, d, p, verdict) ==
    IF PyEq(verdict, Str(FORWARDED)) THEN SetFlag(edges, s, d, p, "forwarded")
    ELSE edges

(* Lines 83-87: the update for one accepted record. *)
Observe(edges, s, d, p, verdict) ==
    IF PyEq(verdict, Str(FORWARDED)) THEN SetFlag(edges, s, d, p, "forwarded")
    ELSE IF PyEq(verdict, Str(DROPPED)) THEN SetFlag(edges, s, d, p, "dropped")
    ELSE edges

DestinationMissingPodOnly(dst_pod, dst_ns) == ~Truthy(dst_pod)

DestinationMissingBoth(dst_pod, dst_ns) == ~Truthy(dst_pod) /\ ~Truthy(dst_ns)

(* Line 67 *)
DestinationMissing(dst_pod, dst_ns) == ~Truthy(dst_pod) \/ ~Truthy(dst_ns)

SourceLabelPodOnly(src_pod, src_ns) ==
    IF Truthy(src_pod) THEN Label(src_pod, src_ns) ELSE EXTERNAL

(* Line 71 *)
SourceLabel(src_pod, src_ns) ==
    IF Truthy(src_pod) /\ Truthy(src_ns) THEN Label(src_pod, src_ns)
    ELSE EXTERNAL

IsSelfLoopNever(source, destination) == FALSE

(* Line 74 *)
IsSelfLoop(source, destination) == source = destination

ProtocolNoDefault(flow) == Get(flow, "l4_protocol", NoneVal)

(* Line 77 *)
Protocol(flow) == Get(flow, "l4_protocol", Str(UNKNOWN))

(* Lines 58-81: what the loop body derives from a parsed JSON object.      *)
(* how is "error" when a call raises (handled at line 92), "skip" when the *)
(* body leaves at line 68 or 75, "ok" when it reaches line 83.             *)
NoEdge(how) ==
    [how |-> how, source |-> << >>, destination |-> << >>,
     protocol |-> NoneVal, verdict |-> NoneVal]

EdgeOf(flow) ==
    LET src == extract_service_name(Get(flow, "source_pod", NoneVal))
        src_ns == Get(flow, "source_namespace", NoneVal)
        dst == extract_service_name(Get(flow, "destination_pod", NoneVal))
        dst_ns == Get(flow, "destination_namespace", NoneVal)
    IN  IF src.raised \/ dst.raised THEN NoEdge("error")
        ELSE IF DestinationMissing(dst.val, dst_ns) THEN NoEdge("skip")
        ELSE IF IsSelfLoop(SourceLabel(src.val, src_ns),
                           Label(dst.val, dst_ns)) THEN NoEdge("skip")
        ELSE [how |-> "ok",
              source |-> SourceLabel(src.val, src_ns),
              destination |-> Label(dst.val, dst_ns),
              protocol |-> Protocol(flow),
              verdict |-> Get(flow, "verdict", Str(UNKNOWN))]

(* verdict == "FORWARDED" or verdict == "DROPPED" *)
Recognised(verdict) ==
    PyEq(verdict, Str(FORWARDED)) \/ PyEq(verdict, Str(DROPPED))

(* Lines 56-87 for a line that parsed to a JSON object.  Hashing the key   *)
(* at line 85 or 87 raises TypeError for an unhashable protocol.           *)
ProcessFlow(edges, flow) ==
    LET e == EdgeOf(flow)
    IN  IF e.how # "ok" THEN [edges |-> edges, how |-> e.how]
        ELSE IF Recognised(e.verdict) /\ ~Hashable(e.protocol)
             THEN [edges |-> edges, how |-> "error"]
        ELSE [edges |-> Observe(edges, e.source, e.destination,
                                e.protocol, e.verdict),
              how |-> "ok"]

-----------------------------------------------------------------------------
(* Lines of the input file.  kind is what the line is before json.loads:   *)
(* "blank" (whitespace only), "text" (not JSON), "value" (JSON, but not an *)
(* object), "object" (a JSON object, flow holds its fields) and "badenc"   *)
(* (bytes the text decoder rejects).                                       *)
(* "l7" and "l4" are the nested application-layer and transport-layer     *)
(* descriptors of the structured schema; the program never reads them.     *)
Fields == {"source_pod", "source_namespace", "destination_pod",
           "destination_namespace", "l4_protocol", "verdict", "l7", "l4"}

NoFlow == [k \in Fields |-> Absent]

Flow(sp, sn, dp, dn, proto, verdict) ==
    [kind |-> "object",
     flow |-> [source_pod |-> sp, source_namespace |-> sn,
               destination_pod |-> dp, destination_namespace |-> dn,
               l4_protocol |-> proto, verdict |-> verdict,
               l7 |-> Absent, l4 |-> Absent]]

Layered(line, l7, l4) == [line EXCEPT !.flow.l7 = l7, !.flow.l4 = l4]

Other(kind) == [kind |-> kind, flow |-> NoFlow]

PodA   == Str(<<"a", "-", "1">>)
PodB   == Str(<<"b", "-", "2">>)
PodB9  == Str(<<"b", "-", "9">>)
PodDash == Str(<<"-", "b">>)
NsN    == Str(<<"n">>)
Ns5    == Str(<<"5">>)
Int5   == IntVal(5, <<"5">>)
Int6   == IntVal(6, <<"6">>)
Float6 == FloatVal(6, <<"6", ".", "0">>)
ListQ  == ListVal(1, <<"[", "'", "q", "'", "]">>)
TCP    == Str(<<"T", "C", "P">>)
UDP    == Str(<<"U", "D", "P">>)
L7Http == DictVal(<<"h", "t", "t", "p">>)
L4Tcp  == DictVal(<<"T", "C", "P">>)
L4Udp  == DictVal(<<"U", "D", "P">>)
Fwd    == Str(FORWARDED)
Drp    == Str(DROPPED)

Lines ==
    { Other("blank"), Other("text"), Other("value"), Other("badenc"),
      Flow(PodA, NsN, PodB, NsN, TCP, Fwd),
      Flow(PodA, NsN, PodB9, NsN, TCP, Drp),
      Flow(PodA, NsN, PodB, NsN, TCP, Absent),
      Layered(Flow(PodA, NsN, PodB, NsN, UDP, Fwd), L7Http, L4Tcp),
      Flow(PodA, NsN, PodB, NsN, Int6, Fwd),
      Flow(PodA, NsN, PodB, NsN, Float6, Drp),
      Flow(PodA, NsN, PodB, NsN, ListQ, Fwd),
      Flow(PodB, Int5, PodB9, Ns5, TCP, Fwd),
      Flow(PodA, NsN, PodDash, NsN, TCP, Drp),
      Flow(PodA, NsN, PodB, Absent, TCP, Fwd),
      Layered(Flow(PodA, NoneVal, PodB, NsN, Absent, Drp), Absent, L4Udp),
      Flow(Int5, NsN, PodB, NsN, TCP, Fwd) }

Files == UNION { [1..n -> Lines] : n \in 0..MaxLen }

-----------------------------------------------------------------------------
(* Lines 51-94: one iteration of the loop, on a line that was decoded. *)
ProcessLine(edges, line) ==
    CASE line.kind = "blank"  -> [edges |-> edges, how |-> "skip"]
      [] line.kind = "text"   -> [edges |-> edges, how |-> "warning"]
      [] line.kind = "value"  -> [edges |-> edges, how |-> "error"]
      [] OTHER                -> ProcessFlow(edges, line.flow)

StatusNeverMixed(entry) ==
    IF entry.forwarded THEN "FORWARDED" ELSE "DROPPED"

(* Lines 98-105 *)
Status(entry) ==
    IF entry.forwarded /\ entry.dropped THEN "MIXED"
    ELSE IF entry.forwarded THEN "FORWARDED"
    ELSE "DROPPED"

(* Lines 97-109 *)
ConvertEdges(edges) ==
    [i \in 1..Len(edges) |->
        [source |-> edges[i].source, destination |-> edges[i].destination,
         protocol |-> edges[i].protocol, status |-> Status(edges[i])]]

(* Line 125, the key tuples: a < b.  Python looks for the first position   *)
(* where the tuples differ and applies < there; CompareRaises is the case  *)
(* in which that < has no meaning for the two types.                       *)
ProtoComparable(p, q) ==
    \/ p.t = "str" /\ q.t = "str"
    \/ IsNumber(p) /\ IsNumber(q)

CompareRaises(a, b) ==
    /\ a.source = b.source
    /\ a.destination = b.destination
    /\ ~PyEq(a.protocol, b.protocol)
    /\ ~ProtoComparable(a.protocol, b.protocol)

ProtoLess(p, q) ==
    IF p.t = "str" THEN StrLess(p.v, q.v) ELSE p.n < q.n

KeyLessIgnoresProtocol(a, b) ==
    IF a.source # b.source THEN StrLess(a.source, b.source)
    ELSE IF a.destination # b.destination
         THEN StrLess(a.destination, b.destination)
    ELSE FALSE

KeyLess(a, b) ==
    IF a.source # b.source THEN StrLess(a.source, b.source)
    ELSE IF a.destination # b.destination
         THEN StrLess(a.destination, b.destination)
    ELSE IF PyEq(a.protocol, b.protocol) THEN FALSE
    ELSE ProtoLess(a.protocol, b.protocol)

(* list.sort: stable insertion of each element after the elements that     *)
(* are not greater than it.                                                *)
RECURSIVE Insert(_, _)
Insert(sorted, e) ==
    IF sorted = << >> THEN <<e>>
    ELSE IF KeyLess(e, Head(sorted)) THEN <<e>> \o sorted
    ELSE <<Head(sorted)>> \o Insert(Tail(sorted), e)

RECURSIVE SortFrom(_, _)
SortFrom(sorted, rest) ==
    IF rest = << >> THEN sorted
    ELSE SortFrom(Insert(sorted, Head(rest)), Tail(rest))

SortEdges(list) == SortFrom(<< >>, list)

SortRaises(list) ==
    \E i, j \in 1..Len(list) : i # j /\ CompareRaises(list[i], list[j])

-----------------------------------------------------------------------------
VARIABLES
    lines,          \* the content of input_file
    readable,       \* whether open(input_file) succeeds
    pos,            \* number of lines the loop has consumed
    edges,          \* the dictionary of process_flows
    output_edges,   \* the list process_flows returns and main sorts
    stdout,         \* the edge lists written to the output, in order
    stderr,         \* the diagnostics printed so far
    pc              \* position of the run

vars == <<lines, readable, pos, edges, output_edges, stdout, stderr, pc>>

Init ==
    /\ lines \in Files
    /\ readable \in BOOLEAN
    /\ pos = 0
    /\ edges = << >>
    /\ output_edges = << >>
    /\ stdout = << >>
    /\ stderr = << >>
    /\ pc = "open"

(* Line 49: open succeeds. *)
OpenFile ==
    /\ pc = "open"
    /\ readable
    /\ pc' = "loop"
    /\ UNCHANGED <<lines, readable, pos, edges, output_edges, stdout, stderr>>

OpenFailsQuietly ==
    /\ pc = "open"
    /\ ~readable
    /\ pc' = "sort"
    /\ UNCHANGED <<lines, readable, pos, edges, output_edges, stdout, stderr>>

(* Line 49 raises, lines 111-113: report and sys.exit(1). *)
OpenFails ==
    /\ pc = "open"
    /\ ~readable
    /\ pc' = "exit1"
    /\ stderr' = Append(stderr, "Error reading or processing file")
    /\ UNCHANGED <<lines, readable, pos, edges, output_edges, stdout>>

Diagnostic(how) ==
    CASE how = "warning" -> <<"Warning: Invalid JSON on line">>
      [] how = "error"   -> <<"Error processing flow">>
      [] OTHER           -> << >>

(* Lines 50-94: the loop takes the next line and handles it. *)
ReadLine ==
    /\ pc = "loop"
    /\ pos < Len(lines)
    /\ lines[pos + 1].kind # "badenc"
    /\ LET r == ProcessLine(edges, lines[pos + 1])
       IN  /\ edges' = r.edges
           /\ stderr' = stderr \o Diagnostic(r.how)
    /\ pos' = pos + 1
    /\ UNCHANGED <<lines, readable, output_edges, stdout, pc>>

(* Line 50: the iterator of a text-mode file decodes a block of bytes at   *)
(* a time, so the UnicodeDecodeError of an undecodable line is raised when *)
(* the block holding it is read: at that line, or at an earlier line of    *)
(* the same block.  It is raised outside the inner try and is caught at    *)
(* line 111.                                                               *)
DecodeError ==
    /\ pc = "loop"
    /\ \E j \in (pos + 1)..Len(lines) : lines[j].kind = "badenc"
    /\ pc' = "exit1"
    /\ stderr' = Append(stderr, "Error reading or processing file")
    /\ UNCHANGED <<lines, readable, pos, edges, output_edges, stdout>>

(* Lines 96-109: end of input, the dictionary becomes the edge list. *)
Convert ==
    /\ pc = "loop"
    /\ pos = Len(lines)
    /\ output_edges' = ConvertEdges(edges)
    /\ pc' = "sort"
    /\ UNCHANGED <<lines, readable, pos, edges, stdout, stderr>>

(* Line 125 *)
Sort ==
    /\ pc = "sort"
    /\ ~SortRaises(output_edges)
    /\ output_edges' = SortEdges(output_edges)
    /\ pc' = "emit"
    /\ UNCHANGED <<lines, readable, pos, edges, stdout, stderr>>

(* Line 125 raises TypeError; nothing catches it in main. *)
SortFails ==
    /\ pc = "sort"
    /\ SortRaises(output_edges)
    /\ pc' = "traceback"
    /\ stderr' = Append(stderr, "TypeError")
    /\ UNCHANGED <<lines, readable, pos, edges, output_edges, stdout>>

(* Lines 128-133 *)
Emit ==
    /\ pc = "emit"
    /\ stdout' = Append(stdout, output_edges)
    /\ pc' = "done"
    /\ UNCHANGED <<lines, readable, pos, edges, output_edges, stderr>>

Next ==
    \/ OpenFile
    \/ OpenFails
    \/ ReadLine
    \/ DecodeError
    \/ Convert
    \/ Sort
    \/ SortFails
    \/ Emit

Spec == Init /\ [][Next]_vars

(* The run on a file of one record, for every source pod name up to       *)
(* MaxPodLen characters and a few destination pod names.                   *)
PodChars == {"a", "b", "-"}

PodTexts == UNION { [1..n -> PodChars] : n \in 0..MaxPodLen }

DstPods == { <<"b", "-", "2">>, <<"b">>, << >>, <<"-", "b">>,
             <<"a", "-", "b", "-", "a">> }

InitNames ==
    /\ lines \in { <<Flow(Str(s), NsN, Str(u), NsN, TCP, Fwd)>> :
                      s \in PodTexts, u \in DstPods }
    /\ readable = TRUE
    /\ pos = 0
    /\ edges = << >>
    /\ output_edges = << >>
    /\ stdout = << >>
    /\ stderr = << >>
    /\ pc = "open"

NextNames ==
    \/ OpenFile
    \/ ReadLine
    \/ Convert
    \/ Sort
    \/ Emit

SpecNames == InitNames /\ [][NextNames]_vars

(* The run with an interrupt signal.  SIGINT raises KeyboardInterrupt in   *)
(* the main thread; it is not an Exception, so neither line 92 nor line    *)
(* 111 catches it: it leaves process_flows and main, the traceback is      *)
(* printed and the process ends.  The line being handled was applied or    *)
(* not; the dictionary dies with the process either way, so the interrupt  *)
(* is taken between two lines.                                             *)
Interrupted == \E i \in 1..Len(stderr) : stderr[i] = "KeyboardInterrupt"

InterruptSwallowed ==
    /\ pc = "loop"
    /\ pos < Len(lines)
    /\ ~Interrupted
    /\ pos' = pos + 1
    /\ stderr' = Append(stderr, "KeyboardInterrupt")
    /\ UNCHANGED <<lines, readable, edges, output_edges, stdout, pc>>

Interrupt ==
    /\ pc = "loop"
    /\ pc' = "interrupted"
    /\ stderr' = Append(stderr, "KeyboardInterrupt")
    /\ UNCHANGED <<lines, readable, pos, edges, output_edges, stdout>>

NextInterrupt == Next \/ Interrupt

SpecInterrupt == Init /\ [][NextInterrupt]_vars

-----------------------------------------------------------------------------
(* A whole run as a function of the file, for a file that opens and        *)
(* decodes: the loop of lines 50-94, then lines 96-109 and main.           *)
RECURSIVE RunLoop(_, _)
RunLoop(dict, ls) ==
    IF ls = << >> THEN dict
    ELSE RunLoop(ProcessLine(dict, Head(ls)).edges, Tail(ls))

(* How main ends: the list it emits, or the TypeError of the sort. *)
Emitted(list) == [raised |-> FALSE, list |-> list]
Traceback == [raised |-> TRUE, list |-> << >>]

RunOutput(ls) ==
    LET list == ConvertEdges(RunLoop(<< >>, ls))
    IN  IF SortRaises(list) THEN Traceback ELSE Emitted(SortEdges(list))

Permuted(ls, p) == [i \in 1..Len(ls) |-> ls[p[i]]]

SameKey(a, b) ==
    /\ a.source = b.source
    /\ a.destination = b.destination
    /\ PyEq(a.protocol, b.protocol)

(* The records of the file that reach the update of lines 83-87 without    *)
(* raising, and the verdicts they carry for the key of entry e.            *)
Reaches(line) ==
    /\ line.kind = "object"
    /\ EdgeOf(line.flow).how = "ok"
    /\ Hashable(EdgeOf(line.flow).protocol)

VerdictsOf(e) ==
    { EdgeOf(lines[i].flow).verdict.v :
        i \in { j \in 1..Len(lines) :
                  /\ Reaches(lines[j])
                  /\ EdgeOf(lines[j].flow).verdict.t = "str"
                  /\ SameKey(EdgeOf(lines[j].flow), e) } }

-----------------------------------------------------------------------------
(* C1: order independence.  Whatever the order in which the records of a   *)
(* file are fed to process_flows, the edge list emitted after the sort of  *)
(* main is the same.                                                       *)
C1_OrderIndependent ==
    pc = "done" =>
        \A p \in Permutations(1..Len(lines)) :
            RunOutput(Permuted(lines, p)) = Emitted(stdout[1])

(* C2: idempotence.  From every reachable dictionary, handling a record a  *)
(* second time right after the first leaves every key and both flags of    *)
(* every key as the first handling left them.                              *)
C2_Idempotent ==
    pc = "loop" =>
        \A line \in Lines \ {Other("badenc")} :
            LET once == ProcessLine(edges, line).edges
            IN  ProcessLine(once, line).edges = once

(* The same flagged record was handled twice in a row. *)
C2_Witness ==
    /\ pc = "loop"
    /\ pos >= 2
    /\ lines[pos] = lines[pos - 1]
    /\ Reaches(lines[pos])
    /\ Recognised(EdgeOf(lines[pos].flow).verdict)
    /\ Len(edges) = 1

(* C3: status correctness.  Every edge of the list is FORWARDED exactly    *)
(* when the records of its key carried FORWARDED and never DROPPED,        *)
(* DROPPED exactly when they carried DROPPED and never FORWARDED, MIXED    *)
(* exactly when they carried both.                                         *)
C3_StatusCorrect ==
    pc = "done" =>
        \A i \in 1..Len(stdout[1]) :
            LET e == stdout[1][i]
                sawF == FORWARDED \in VerdictsOf(e)
                sawD == DROPPED \in VerdictsOf(e)
            IN  /\ e.status = "FORWARDED" <=> (sawF /\ ~sawD)
                /\ e.status = "DROPPED" <=> (sawD /\ ~sawF)
                /\ e.status = "MIXED" <=> (sawF /\ sawD)

(* A list with a FORWARDED, a DROPPED and a MIXED edge was emitted. *)
C3_Witness ==
    /\ pc = "done"
    /\ \E i \in 1..Len(stdout[1]) : stdout[1][i].status = "MIXED"
    /\ \E i \in 1..Len(stdout[1]) : stdout[1][i].status = "DROPPED"

-----------------------------------------------------------------------------
(* The filter in the words of the specification: a side resolves when it   *)
(* has a non-empty workload name and a non-empty namespace.                *)
NameOf(pod) == IF pod.t = "str" THEN FirstPart(pod.v) ELSE << >>

WellTyped(flow) ==
    /\ flow.source_pod.t \in {"str", "null", "absent"}
    /\ flow.destination_pod.t \in {"str", "null", "absent"}

Resolves(pod, ns) == NameOf(pod) # << >> /\ Truthy(ns)

IdentityOf(pod, ns) ==
    IF Resolves(pod, ns) THEN Label(Str(NameOf(pod)), ns) ELSE EXTERNAL

DestinationUnresolved(line) ==
    /\ line.kind = "object"
    /\ WellTyped(line.flow)
    /\ ~Resolves(line.flow.destination_pod, line.flow.destination_namespace)

SelfLoop(line) ==
    /\ line.kind = "object"
    /\ WellTyped(line.flow)
    /\ Resolves(line.flow.destination_pod, line.flow.destination_namespace)
    /\ IdentityOf(line.flow.source_pod, line.flow.source_namespace)
         = IdentityOf(line.flow.destination_pod,
                      line.flow.destination_namespace)

PassesFilter(line) ==
    /\ line.kind = "object"
    /\ WellTyped(line.flow)
    /\ Resolves(line.flow.destination_pod, line.flow.destination_namespace)
    /\ ~SelfLoop(line)

(* The step that handles the next line of the file. *)
Handles(line) ==
    /\ pc = "loop"
    /\ pos < Len(lines)
    /\ lines[pos + 1] = line
    /\ pos' = pos + 1

UnrecognisedVerdict(line) ==
    /\ PassesFilter(line)
    /\ ~PyEq(Get(line.flow, "verdict", Absent), Fwd)
    /\ ~PyEq(Get(line.flow, "verdict", Absent), Drp)

(* C4, as claimed: a record that passes the filter and has no recognised   *)
(* verdict still creates its key, with neither flag set.                   *)
C4_KeyCreated ==
    [][\A line \in Lines :
          Handles(line) /\ UnrecognisedVerdict(line) =>
              LET e == EdgeOf(line.flow)
                  i == FindKey(edges', e.source, e.destination, e.protocol)
              IN  /\ i # 0
                  /\ FindKey(edges, e.source, e.destination, e.protocol) = 0
                       => ~edges'[i].forwarded /\ ~edges'[i].dropped]_vars

(* C4, amended: a record that passes the filter and has no recognised      *)
(* verdict creates no key and sets no flag; the dictionary is unchanged.   *)
C4_NoKeyNoFlag ==
    [][\A line \in Lines :
          Handles(line) /\ UnrecognisedVerdict(line) => edges' = edges]_vars

(* Such a record was the only one handled, and the dictionary is empty. *)
C4_Witness ==
    /\ pc = "loop"
    /\ pos = 1
    /\ UnrecognisedVerdict(lines[1])
    /\ edges = << >>

(* C5: no record aborts the run.  A file that opens and decodes is run to  *)
(* the end and its edge list is emitted, whatever its lines hold.          *)
C5_NeverAborts ==
    (readable /\ \A i \in 1..Len(lines) : lines[i].kind # "badenc")
        => pc \notin {"traceback", "exit1"}

(* C6: a record with invalid encoding is skipped and the run goes on; a    *)
(* file that opens never ends on the fatal path of lines 111-113.          *)
C6_BadEncodingSkipped ==
    readable => pc # "exit1"

(* C7: skipping is a no-op.  Handling a blank line, a line that is not     *)
(* JSON, a record whose destination does not resolve or a self-loop        *)
(* leaves the dictionary as it was and the loop goes on, and the result of *)
(* the run is the result for the file without those lines.                 *)
Skipped(line) ==
    \/ line.kind \in {"blank", "text"}
    \/ DestinationUnresolved(line)
    \/ SelfLoop(line)

NotSkipped(line) == ~Skipped(line)

C7_SkipIsNoOp ==
    /\ [][\A line \in Lines :
             Handles(line) /\ Skipped(line) =>
                 edges' = edges /\ pc' = "loop"]_vars
    /\ [](pc = "done" =>
             Emitted(stdout[1]) = RunOutput(SelectSeq(lines, NotSkipped)))
    /\ [](pc = "traceback" =>
             RunOutput(SelectSeq(lines, NotSkipped)) = Traceback)

(* A line was skipped after an edge was recorded, and the list came out. *)
C7_Witness ==
    /\ pc = "done"
    /\ Len(lines) >= 3
    /\ ~Skipped(lines[1])
    /\ Skipped(lines[2])
    /\ ~Skipped(lines[3])
    /\ Len(stdout[1]) = 2

(* C8: the emitted list is in ascending order of (source, destination,     *)
(* protocol), and it is the list a second run on the same file gives.      *)
Ascending(list) ==
    \A i, j \in 1..Len(list) : i < j =>
        \/ StrLess(list[i].source, list[j].source)
        \/ /\ list[i].source = list[j].source
           /\ StrLess(list[i].destination, list[j].destination)
        \/ /\ list[i].source = list[j].source
           /\ list[i].destination = list[j].destination
           /\ ProtoLess(list[i].protocol, list[j].protocol)

C8_SortedDeterministic ==
    pc = "done" =>
        Ascending(stdout[1]) /\ Emitted(stdout[1]) = RunOutput(lines)

(* The sort had to move an edge: the dictionary was not in order. *)
C8_Witness ==
    /\ pc = "done"
    /\ Len(stdout[1]) >= 2
    /\ stdout[1] # ConvertEdges(edges)

(* C9: no two entries of the dictionary, and no two edges of the list,     *)
(* have the same (source, destination, protocol); the records of one key   *)
(* give exactly one edge.                                                  *)
NoDuplicates(list) ==
    \A i, j \in 1..Len(list) : i # j => ~SameKey(list[i], list[j])

NoLoops(list) ==
    \A i \in 1..Len(list) : list[i].source # list[i].destination

C10_NoSelfLoops ==
    /\ NoLoops(edges)
    /\ NoLoops(output_edges)
    /\ \A d \in 1..Len(stdout) : NoLoops(stdout[d])

(* A self-loop record was handled between two records that gave edges. *)
C10_Witness ==
    /\ pc = "done"
    /\ Len(lines) = 3
    /\ SelfLoop(lines[2])
    /\ Len(stdout[1]) = 2

-----------------------------------------------------------------------------
(* C11: destination completeness.  The destination of every entry and of   *)
(* every emitted edge is 'name (namespace)' for the non-empty name and the *)
(* non-empty namespace of a record that was handled, and a record whose    *)
(* destination name or namespace is missing or empty adds nothing, also    *)
(* when its source resolves.                                               *)
CompleteDestination(d) ==
    \E n \in 1..pos :
        LET dp == lines[n].flow.destination_pod
            dn == lines[n].flow.destination_namespace
        IN  /\ lines[n].kind = "object"
            /\ NameOf(dp) # << >>
            /\ Truthy(dn)
            /\ dn.v # << >>
            /\ d = NameOf(dp) \o <<" ", "(">> \o dn.v \o <<")">>

CompleteDestinations(list) ==
    \A i \in 1..Len(list) : CompleteDestination(list[i].destination)

C11_DestinationComplete ==
    /\ [](/\ CompleteDestinations(edges)
          /\ CompleteDestinations(output_edges)
          /\ \A d \in 1..Len(stdout) : CompleteDestinations(stdout[d]))
    /\ [][\A line \in Lines :
             Handles(line) /\ DestinationUnresolved(line) =>
                 edges' = edges]_vars

(* A record with a resolved source and no destination namespace, or an     *)
(* empty destination name, was handled after a record that gave an edge.   *)
C11_Witness ==
    /\ pc = "done"
    /\ Len(lines) >= 2
    /\ Len(stdout[1]) = 1
    /\ DestinationUnresolved(lines[2])
    /\ Resolves(lines[2].flow.source_pod, lines[2].flow.source_namespace)
    /\ Recognised(Get(lines[2].flow, "verdict", Absent))

(* C12: a record whose destination resolves is not rejected for its        *)
(* source: its source label is 'name (namespace)' when the source name and *)
(* namespace are both non-empty, and 'external' otherwise.                 *)
SourceOf(line) ==
    LET sp == line.flow.source_pod
        sn == line.flow.source_namespace
    IN  IF NameOf(sp) # << >> /\ Truthy(sn)
        THEN NameOf(sp) \o <<" ", "(">> \o sn.v \o <<")">>
        ELSE EXTERNAL

DestinationOf(line) ==
    NameOf(line.flow.destination_pod) \o <<" ", "(">>
        \o line.flow.destination_namespace.v \o <<")">>

C12_SourceLabel ==
    [][\A line \in Lines :
          ( /\ Handles(line)
            /\ PassesFilter(line)
            /\ Recognised(Get(line.flow, "verdict", Absent))
            /\ Hashable(Get(line.flow, "l4_protocol", Absent)) )
          => \E i \in 1..Len(edges') :
                /\ edges'[i].source = SourceOf(line)
                /\ edges'[i].destination = DestinationOf(line)
                /\ PyEq(edges'[i].protocol,
                        Get(line.flow, "l4_protocol", Str(UNKNOWN)))
                /\ edges'[i].forwarded \/ edges'[i].dropped]_vars

(* A record without a source namespace gave an edge from 'external'. *)
C12_Witness ==
    /\ pc = "loop"
    /\ pos >= 1
    /\ PassesFilter(lines[pos])
    /\ ~Resolves(lines[pos].flow.source_pod, lines[pos].flow.source_namespace)
    /\ \E i \in 1..Len(edges) : edges[i].source = EXTERNAL

(* C13: monotone accumulation.  No step removes a key, and no step turns a *)
(* forwarded or dropped flag from true back to false.                      *)
C13_Monotone ==
    [][\A i \in 1..Len(edges) :
          \E j \in 1..Len(edges') :
             /\ SameKey(edges[i], edges'[j])
             /\ edges[i].forwarded => edges'[j].forwarded
             /\ edges[i].dropped => edges'[j].dropped]_vars

(* A key had one flag set, and a later record set the other. *)
C13_Witness ==
    /\ pc = "loop"
    /\ pos >= 2
    /\ Len(edges) = 1
    /\ edges[1].forwarded
    /\ edges[1].dropped

-----------------------------------------------------------------------------
(* C14: the bounded run.  On a file that opens and decodes the run goes    *)
(* Running -> Draining -> Done and never back, it ends in Done, the edge   *)
(* list is produced once and only after every line was consumed, and no    *)
(* line is handled after that.                                             *)
Phase ==
    CASE pc \in {"open", "loop"} -> 1
      [] pc \in {"sort", "emit"} -> 2
      [] pc = "done"             -> 3
      [] OTHER                   -> 0

Decodable == \A i \in 1..Len(lines) : lines[i].kind # "badenc"

Stopped == pc \in {"done", "traceback", "exit1"}

C14_BoundedRun ==
    /\ [][(readable /\ Decodable /\ Phase' # 0) => Phase' >= Phase]_vars
    /\ [](Len(stdout) <= 1)
    /\ [](Phase \in {2, 3} => pos = Len(lines))
    /\ [][(Phase \in {2, 3}) => (pos' = pos /\ edges' = edges)]_vars
    /\ []((readable /\ Decodable /\ Stopped) => pc = "done")

(* C15: a failure of the input source is fatal.  When the file cannot be   *)
(* opened or read, the failure is reported on the diagnostic output, the   *)
(* run ends in sys.exit(1) and no edge list is emitted.                    *)
C15_InputFailureFatal ==
    /\ (~readable /\ pc # "open") => pc = "exit1"
    /\ pc = "exit1" =>
         /\ stdout = << >>
         /\ output_edges = << >>
         /\ stderr # << >>
         /\ stderr[Len(stderr)] = "Error reading or processing file"

(* The file did not open and the run has ended. *)
C15_Witness ==
    /\ pc = "exit1"
    /\ ~readable
    /\ Len(lines) >= 1

-----------------------------------------------------------------------------
(* C16, as claimed: an interrupt delivered while records are consumed      *)
(* leads to one materialisation of the settled dictionary, and the whole   *)
(* edge list is emitted.                                                   *)
C16_InterruptFlushes ==
    Interrupted =>
        /\ Len(stdout) = 1
        /\ stdout[1] = SortEdges(ConvertEdges(edges))

(* C16, amended: an interrupt delivered while records are consumed ends    *)
(* the run at once; nothing is materialised, no edge list is emitted and   *)
(* no further record is handled.                                           *)
C16_InterruptAborts ==
    /\ [](Interrupted =>
            /\ pc = "interrupted"
            /\ stdout = << >>
            /\ output_edges = << >>)
    /\ [][Interrupted => (pos' = pos /\ edges' = edges)]_vars

(* The interrupt came after a record had given an edge, with lines left. *)
C16_Witness ==
    /\ Interrupted
    /\ pos >= 1
    /\ pos < Len(lines)
    /\ Len(edges) >= 1

-----------------------------------------------------------------------------
(* The protocol label the specification describes: the application-layer   *)
(* descriptor first, then the transport-layer descriptor, then the flat    *)
(* field, then UNKNOWN.                                                    *)
LayeredProtocol(flow) ==
    IF flow.l7.t # "absent"
    THEN IF flow.l7.v = <<"h", "t", "t", "p">> THEN Str(<<"H", "T", "T", "P">>)
         ELSE IF flow.l7.v = <<"g", "r", "p", "c">>
              THEN Str(<<"g", "R", "P", "C">>)
         ELSE Str(<<"L", "7">>)
    ELSE IF flow.l4.t # "absent" THEN Str(flow.l4.v)
    ELSE IF flow.l4_protocol.t # "absent" THEN flow.l4_protocol
    ELSE Str(UNKNOWN)

FlatProtocol(flow) ==
    IF flow.l4_protocol.t # "absent" THEN flow.l4_protocol ELSE Str(UNKNOWN)

Recorded(line) ==
    /\ PassesFilter(line)
    /\ Recognised(Get(line.flow, "verdict", Absent))
    /\ Hashable(Get(line.flow, "l4_protocol", Absent))

(* C17, as claimed: the edge of every recorded record carries the label of *)
(* the fixed precedence l7, l4, flat field, UNKNOWN.                       *)
C17_Precedence ==
    [][\A line \in Lines :
          Handles(line) /\ Recorded(line) =>
              \E i \in 1..Len(edges') :
                 /\ edges'[i].source = SourceOf(line)
                 /\ edges'[i].destination = DestinationOf(line)
                 /\ PyEq(edges'[i].protocol, LayeredProtocol(line.flow))]_vars

(* C17, amended: only the flat field counts.  The label is the literal     *)
(* value of l4_protocol when the record has it, with or without nested     *)
(* descriptors, and UNKNOWN when it has not.                               *)
C17_FlatProtocol ==
    [][\A line \in Lines :
          Handles(line) /\ Recorded(line) =>
              /\ FindKey(edges', SourceOf(line), DestinationOf(line),
                         FlatProtocol(line.flow)) # 0
              /\ \A i \in 1..Len(edges') :
                    (\A j \in 1..Len(edges) : ~SameKey(edges'[i], edges[j]))
                      => edges'[i].protocol = FlatProtocol(line.flow)]_vars

(* A record with both descriptors and a flat field gave an edge with the   *)
(* flat value.                                                             *)
C17_Witness ==
    /\ pc = "loop"
    /\ pos >= 1
    /\ Recorded(lines[pos])
    /\ lines[pos].flow.l7.t = "dict"
    /\ lines[pos].flow.l4.t = "dict"
    /\ \E i \in 1..Len(edges) : edges[i].protocol = FlatProtocol(lines[pos].flow)

-----------------------------------------------------------------------------
(* The segment of a pod name before its first hyphen, by position. *)
HyphensOf(s) == { i \in 1..Len(s) : s[i] = "-" }

BeforeFirstHyphen(s) ==
    IF HyphensOf(s) = {} THEN s
    ELSE SubSeq(s, 1, (CHOOSE i \in HyphensOf(s) :
                          \A j \in HyphensOf(s) : i <= j) - 1)

Named(name) == name \o <<" ", "(", "n", ")">>

(* C18: name stripping.  The workload name of a pod name is the segment    *)
(* before its first hyphen, the whole name when it has none; a pod name    *)
(* that is empty or begins with a hyphen is unresolved, so that no label   *)
(* of an emitted edge has an empty name.                                   *)
C18_NameStripping ==
    LET sp == lines[1].flow.source_pod.v
        dp == lines[1].flow.destination_pod.v
        src == BeforeFirstHyphen(sp)
        dst == BeforeFirstHyphen(dp)
    IN  /\ extract_service_name(Str(sp)) =
              IF sp = << >> THEN Ret(NoneVal) ELSE Ret(Str(src))
        /\ pc = "done" =>
              stdout[1] =
                 IF dst = << >> \/ src = dst THEN << >>
                 ELSE << [source |-> IF src = << >> THEN EXTERNAL
                                     ELSE Named(src),
                          destination |-> Named(dst),
                          protocol |-> TCP,
                          status |-> "FORWARDED"] >>

(* A source pod name with two hyphens gave an edge from its first segment. *)
C18_Witness ==
    /\ pc = "done"
    /\ Cardinality(HyphensOf(lines[1].flow.source_pod.v)) = 2
    /\ Len(stdout[1]) = 1
    /\ stdout[1][1].source = Named(<<"a">>)
    /\ stdout[1][1].destination = Named(<<"b">>)

-----------------------------------------------------------------------------
(* C19: every key of the dictionary has its forwarded or its dropped flag  *)
(* set, so that the last branch of the status derivation labels an edge    *)
(* DROPPED only when a DROPPED record of its key was handled.              *)
C19_FlaggedKeys ==
    /\ \A i \in 1..Len(edges) : edges[i].forwarded \/ edges[i].dropped
    /\ \A i \in 1..Len(output_edges) :
          output_edges[i].status = "DROPPED"
             => DROPPED \in VerdictsOf(output_edges[i])
    /\ \A d \in 1..Len(stdout) : \A i \in 1..Len(stdout[d]) :
          stdout[d][i].status = "DROPPED"
             => DROPPED \in VerdictsOf(stdout[d][i])

(* A DROPPED edge was emitted for a file that also had a record without a  *)
(* recognised verdict.                                                     *)
C19_Witness ==
    /\ pc = "done"
    /\ \E n \in 1..Len(lines) : UnrecognisedVerdict(lines[n])
    /\ \E i \in 1..Len(stdout[1]) : stdout[1][i].status = "DROPPED"

(* C20: the emitted list is the reference set.  An edge is in the list     *)
(* exactly when the file has a well-formed record that resolves its        *)
(* destination, is not a self-loop, has the key of the edge and carries    *)
(* FORWARDED or DROPPED.                                                   *)
KeyOf(line) ==
    [source |-> SourceOf(line), destination |-> DestinationOf(line),
     protocol |-> FlatProtocol(line.flow)]

=============================================================================
